---- MODULE Spec2Model ----
(***************************************************************************)
(* A model of three parts of the vrp repository:                           *)
(*   - the cluster ruin strategy (vrp-core, ruin/cluster_removal.rs):      *)
(*     ClusterRemoval::new, ClusterRemoval::run, create_job_clusters,      *)
(*     estimate_epsilon, get_average_costs and get_max_curvature;          *)
(*   - the solver configuration (vrp-cli, extensions/solve/config.rs):     *)
(*     the configure_from_* functions and create_builder_from_config;      *)
(*   - the problem reader (vrp-pragmatic, format/problem/                  *)
(*     problem_reader.rs): map_to_problem, get_problem_blocks,             *)
(*     read_reserved_times_index and create_extras.                        *)
(*                                                                         *)
(* Numbers.  Costs are f64 in the source.  Here every cost is an integer   *)
(* multiple of CostUnit, which is divisible by every possible number of    *)
(* profiles, so that the average over the profiles is exact.  Distances to *)
(* a line are kept multiplied by the length of that line (the same factor  *)
(* for every point of one curve), so they are integers as well.  The       *)
(* jittered epsilon is kept in tenths.                                     *)
(*                                                                         *)
(* Option<T> is a sequence of length at most one: None is <<>>, Some(x) is *)
(* <<x>>.                                                                  *)
(***************************************************************************)
EXTENDS Integers, Sequences, FiniteSets, TLC

VARIABLES
    problem,    \* the Problem: [jobs: the locations of the jobs, profiles: the fleet's profiles,
                \*               index: the neighbours of every job, per profile]
    removal,    \* Option<ClusterRemoval>: the strategy built by ClusterRemoval::new
    runs,       \* the calls of ClusterRemoval::run made so far, each with its outcome
    values,     \* a curve handed to get_max_curvature
    curvature,  \* Option<f64>: what get_max_curvature returned for values
    epsilon,    \* Option<[nth, ret]>: a call of estimate_epsilon on problem and its result
    config,     \* the Config read from the configuration document
    builder,    \* the Builder handed to a configure_from_* function
    result,     \* Option<[op, problem, builder]>: the configuration function applied and its result
    api_problem,\* Option<ApiProblem>: the problem model handed to the problem reader
    reading     \* Option<[op, outcomes, out]>: the reader function applied and its result

vars ==
    <<problem, removal, runs, values, curvature, epsilon, config, builder, result,
      api_problem, reading>>

(***************************************************************************)
(* Bounds of the model.                                                    *)
(***************************************************************************)
MaxJobs == 6        \* jobs of a problem
MaxLoc == 2         \* job locations are 0..MaxLoc
MaxProfiles == 2    \* profiles of a fleet
MaxClusterSize == 5 \* cluster_size.start and cluster_size.end are 2..MaxClusterSize
MaxLimit == 1       \* min_jobs and max_jobs are 0..MaxLimit
MaxNth == 3         \* nth_neighbor of a direct estimate_epsilon call is 0..MaxNth
MaxCurveLen == 3    \* points of a curve handed to get_max_curvature
MaxCoord == 2       \* coordinates of such a point are 0..MaxCoord

None == <<>>
Some(x) == <<x>>

\* Result<T, E> is a record with ok and, by ok, value or error.
Ok(value) == [ok |-> TRUE, value |-> value]
Err(error) == [ok |-> FALSE, error |-> error]

Abs(x) == IF x < 0 THEN 0 - x ELSE x
Max2(a, b) == IF a >= b THEN a ELSE b
Min2(a, b) == IF a <= b THEN a ELSE b

RECURSIVE Factorial(_)
Factorial(n) == IF n <= 1 THEN 1 ELSE n * Factorial(n - 1)

\* The unit of cost: every cost is a multiple of it (see "Numbers" above).
CostUnit == Factorial(MaxProfiles)

(***************************************************************************)
(* The problem: jobs on a line, one transport cost per profile.  Profile 1 *)
(* is symmetric, profile p > 1 charges p times as much for going back.     *)
(***************************************************************************)
TransportCost(profile, from, to) ==
    CostUnit * Abs(to - from) * (IF to < from THEN profile ELSE 1)

\* Sequences over 0..MaxLoc of length n in ascending order.
RECURSIVE AscendingSeqs(_, _)
AscendingSeqs(n, lo) ==
    IF n = 0 THEN {<<>>}
    ELSE UNION {{<<v>> \o s : s \in AscendingSeqs(n - 1, v)} : v \in lo..MaxLoc}

\* Jobs::size
JobsSize(p) == Len(p.jobs)

\* Inserts the pair e = <<job, cost>> after the pairs of s that cost no more.
RECURSIVE InsertByCost(_, _)
InsertByCost(s, e) ==
    IF s = <<>> THEN <<e>>
    ELSE IF e[2] < Head(s)[2] THEN <<e>> \o s
    ELSE <<Head(s)>> \o InsertByCost(Tail(s), e)

\* The pairs <<other, cost from job to other>> for the jobs k..size other than job,
\* sorted by cost (jobs of equal cost keep their order).
RECURSIVE SortedJobCosts(_, _, _, _)
SortedJobCosts(p, profile, job, k) ==
    IF k = 0 THEN <<>>
    ELSE IF k = job THEN SortedJobCosts(p, profile, job, k - 1)
    ELSE InsertByCost(SortedJobCosts(p, profile, job, k - 1),
                      <<k, TransportCost(profile, p.jobs[job], p.jobs[k])>>)

\* The index of Jobs: for every profile and job, the other jobs with their
\* costs, nearest first.  Jobs builds it once, when the problem is built.
create_index(jobs, profiles) ==
    LET p == [jobs |-> jobs, profiles |-> profiles]
    IN  [f \in DOMAIN profiles |->
            [job \in 1..Len(jobs) |-> SortedJobCosts(p, profiles[f], job, Len(jobs))]]

\* The problem with these jobs and profiles.
Problem(jobs, profiles) ==
    [jobs |-> jobs, profiles |-> profiles, index |-> create_index(jobs, profiles)]

Problems ==
    {Problem(js, [f \in 1..np |-> f]) :
        js \in UNION {AscendingSeqs(n, 0) : n \in 0..MaxJobs}, np \in 1..MaxProfiles}

\* Jobs::neighbors(profile, job, 0.): the other jobs with their costs, nearest
\* first (a profile is its own position in fleet.profiles).
neighbors(p, profile, job) == p.index[profile][job]

(***************************************************************************)
(* Epsilon estimation.                                                     *)
(***************************************************************************)
\* neighbors(..).skip(nth_neighbor).next().map(|(_, cost)| *cost).unwrap_or(0.)
NthNeighborCost(p, profile, job, nth_neighbor) ==
    LET nb == neighbors(p, profile, job)
    IN  IF Len(nb) > nth_neighbor THEN nb[nth_neighbor + 1][2] ELSE 0

\* The fold over the first k profiles: acc[idx] += cost to the nth neighbour.
RECURSIVE FoldProfiles(_, _, _)
FoldProfiles(p, nth_neighbor, k) ==
    IF k = 0 THEN [idx \in 1..JobsSize(p) |-> 0]
    ELSE LET acc == FoldProfiles(p, nth_neighbor, k - 1)
         IN  [idx \in 1..JobsSize(p) |->
                 acc[idx] + NthNeighborCost(p, p.profiles[k], idx, nth_neighbor)]

get_average_costs(p, nth_neighbor) ==
    LET costs == FoldProfiles(p, nth_neighbor, Len(p.profiles))
    IN  [idx \in 1..JobsSize(p) |-> costs[idx] \div Len(p.profiles)]

RECURSIVE InsertAscending(_, _)
InsertAscending(s, v) ==
    IF s = <<>> THEN <<v>>
    ELSE IF v < Head(s) THEN <<v>> \o s
    ELSE <<Head(s)>> \o InsertAscending(Tail(s), v)

\* costs.sort_by(|&a, &b| compare_floats(a, b))
RECURSIVE SortCosts(_)
SortCosts(s) ==
    IF s = <<>> THEN <<>>
    ELSE InsertAscending(SortCosts(SubSeq(s, 1, Len(s) - 1)), s[Len(s)])

\* The curve of estimate_epsilon: the sorted costs, enumerated from 0.
EpsilonCurve(p, nth_neighbor) ==
    LET costs == SortCosts(get_average_costs(p, nth_neighbor))
    IN  [i \in 1..Len(costs) |-> [x |-> i - 1, y |-> costs[i]]]

\* Point::distance_to_point(a, b) = 0, compared exactly.
SamePoint(a, b) == a.x = b.x /\ a.y = b.y

cross_product(a, b, c) == (b.x - a.x) * (c.y - a.y) - (b.y - a.y) * (c.x - a.x)

\* Point::distance_to_line, multiplied by the distance from a to b.
distance_to_line(p, a, b) == IF SamePoint(a, b) THEN 0 ELSE Abs(cross_product(a, b, p))

\* std::f64::MIN: below every distance.
F64Min == -1

\* The fold of get_max_curvature over the first k points: <<y, distance>>.
RECURSIVE FoldCurvature(_, _)
FoldCurvature(vs, k) ==
    IF k = 0 THEN <<0, F64Min>>
    ELSE LET acc == FoldCurvature(vs, k - 1)
             distance == distance_to_line(vs[k], vs[1], vs[Len(vs)])
         IN  IF distance > acc[2] THEN <<vs[k].y, distance>> ELSE acc

\* get_max_curvature returning the fold's starting distance for the empty curve.
get_max_curvature_min_for_empty(vs) ==
    IF vs = <<>> THEN F64Min ELSE FoldCurvature(vs, Len(vs))[1]

\* get_max_curvature with "distance >= acc.1": the latest of the farthest points.
RECURSIVE FoldCurvatureLatest(_, _)
FoldCurvatureLatest(vs, k) ==
    IF k = 0 THEN <<0, F64Min>>
    ELSE LET acc == FoldCurvatureLatest(vs, k - 1)
             distance == distance_to_line(vs[k], vs[1], vs[Len(vs)])
         IN  IF distance >= acc[2] THEN <<vs[k].y, distance>> ELSE acc

get_max_curvature_latest(vs) ==
    IF vs = <<>> THEN 0 ELSE FoldCurvatureLatest(vs, Len(vs))[1]

get_max_curvature(vs) ==
    IF vs = <<>> THEN 0 ELSE FoldCurvature(vs, Len(vs))[1]

estimate_epsilon(p, nth_neighbor) == get_max_curvature(EpsilonCurve(p, nth_neighbor))

(***************************************************************************)
(* ClusterRemoval::new                                                     *)
(***************************************************************************)
MinClusterPoints == 3

ClusterRemoval_new(p, start, end, min_jobs, max_jobs, threshold) ==
    LET min == Max2(start, MinClusterPoints)
        max == Max2(Min2(end, JobsSize(p)), min + 1)
    IN  [params |-> [k \in 1..(max - min) |->
                        <<min + k - 1, estimate_epsilon(p, (min + k - 1) - 1)>>],
         min |-> min_jobs, max |-> max_jobs, threshold |-> threshold]

(***************************************************************************)
(* Density clustering (algorithms::dbscan), over the jobs of the problem.  *)
(***************************************************************************)
\* The jobs of the leading pairs of nb that cost less than eps (in tenths):
\* take_while(|(_, cost)| *cost < eps).map(|(job, _)| job)
RECURSIVE TakeWhileCheaper(_, _)
TakeWhileCheaper(nb, eps10) ==
    IF nb = <<>> THEN {}
    ELSE IF Head(nb)[2] * 10 < eps10 THEN {Head(nb)[1]} \cup TakeWhileCheaper(Tail(nb), eps10)
    ELSE {}

\* The neighbor_fn closure of create_job_clusters.
neighbor_fn(p, profile, job, eps10) == TakeWhileCheaper(neighbors(p, profile, job), eps10)

\* A core point has at least min_points - 1 neighbours within epsilon.
IsCorePoint(p, profile, eps10, min_points, job) ==
    Cardinality(neighbor_fn(p, profile, job, eps10)) >= min_points - 1

\* The points reachable from those of S through core points.
RECURSIVE DensityReachable(_, _, _, _, _)
DensityReachable(p, profile, eps10, min_points, S) ==
    LET grown == S \cup UNION {neighbor_fn(p, profile, q, eps10) :
                     q \in {c \in S : IsCorePoint(p, profile, eps10, min_points, c)}}
    IN  IF grown = S THEN S ELSE DensityReachable(p, profile, eps10, min_points, grown)

\* The clusters grown from the points k.. in order; taken are the points clustered so far.
RECURSIVE GrowClusters(_, _, _, _, _, _)
GrowClusters(p, profile, eps10, min_points, k, taken) ==
    IF k > JobsSize(p) THEN <<>>
    ELSE IF k \in taken \/ ~IsCorePoint(p, profile, eps10, min_points, k)
    THEN GrowClusters(p, profile, eps10, min_points, k + 1, taken)
    ELSE LET cluster == DensityReachable(p, profile, eps10, min_points, {k}) \ taken
         IN  <<cluster>> \o GrowClusters(p, profile, eps10, min_points, k + 1, taken \cup cluster)

create_clusters(p, profile, eps10, min_points) ==
    GrowClusters(p, profile, eps10, min_points, 1, {})

(***************************************************************************)
(* The random sources.  The injected Random is modelled by the values it   *)
(* hands out, in the order create_job_clusters asks for them: int1, int2   *)
(* and real (the jitter, in tenths of epsilon).  A source seeded the same  *)
(* way hands out the same values.  rand::thread_rng() is not seeded by the *)
(* caller: the order it shuffles into is any permutation.                  *)
(***************************************************************************)
\* Random::uniform_int(min, max): the values it can return.
uniform_int(min, max) == min..max

\* Random::uniform_real(eps * 0.9, eps * 1.1), as tenths of eps: both ends and the middle.
uniform_real == {9, 10, 11}

\* The values an injected source can hand out to a run of self on problem p.
\* For limits with min > max the interval of the second draw is empty: the
\* source has no value to return (None) and the draw panics.
RandomSources(p, self) ==
    [int1 : uniform_int(0, Len(p.profiles)),
     int2 : IF uniform_int(self.min, self.max) = {} THEN {None}
            ELSE {Some(v) : v \in uniform_int(self.min, self.max)},
     real : uniform_real]

\* slice.shuffle(&mut rand::thread_rng()): the orders it can produce.
Shuffles(n) == {f \in [1..n -> 1..n] : \A i, j \in 1..n : f[i] = f[j] => i = j}

(***************************************************************************)
(* create_job_clusters and ClusterRemoval::run.  A panic is the name of    *)
(* the place that panicked, "" when there was none.                        *)
(***************************************************************************)
create_job_clusters(p, random, params, range) ==
    IF random.int1 >= Len(p.profiles)
    THEN [panic |-> "profiles index out of bounds", clusters |-> <<>>]
    ELSE IF random.int2 = None
    THEN [panic |-> "uniform_int on an empty interval", clusters |-> <<>>]
    ELSE IF random.int2[1] >= Len(params)
    THEN [panic |-> "unwrap on None", clusters |-> <<>>]
    ELSE LET profile == p.profiles[random.int1 + 1]
             min_items == params[random.int2[1] + 1][1]
             eps == params[random.int2[1] + 1][2]
             eps10 == eps * random.real
         IN  [panic |-> "", clusters |-> create_clusters(p, profile, eps10, min_items)]

\* run, for one order the shuffle produced.  No path of it returns a candidate.
ClusterRemoval_run(self, insertion_ctx, order) ==
    LET made == create_job_clusters(insertion_ctx.problem, insertion_ctx.random,
                                    self.params, <<self.min, self.max>>)
    IN  IF made.panic # ""
        THEN [panic |-> made.panic, clusters |-> <<>>, returned |-> None]
        ELSE [panic |-> "unimplemented",
              clusters |-> [i \in 1..Len(made.clusters) |-> made.clusters[order[i]]],
              returned |-> None]

\* The number of clusters the shuffle of a run works on.
ClustersToShuffle(self, insertion_ctx) ==
    Len(create_job_clusters(insertion_ctx.problem, insertion_ctx.random,
                            self.params, <<self.min, self.max>>).clusters)

(***************************************************************************)
(* The states and the steps of the ruin strategy.                          *)
(***************************************************************************)
\* The configuration with no section and the values of the variables a
\* specification does not use.
NoConfig == [population |-> None, mutation |-> None, termination |-> None, logging |-> None]

IdleRuin == removal = None /\ runs = <<>>
IdleEstimation == values = <<>> /\ curvature = None /\ epsilon = None
IdleConfig == config = NoConfig /\ builder = None /\ result = None
IdleReader == api_problem = None /\ reading = None

\* The candidates handed to run: the first k jobs assigned, the others not.
Candidates(p) ==
    {[assigned |-> 1..k, unassigned |-> (k + 1)..JobsSize(p)] :
        k \in {0, JobsSize(p) \div 2, JobsSize(p)}}

\* The work units of a candidate, assigned and unassigned together.
WorkUnits(solution) == solution.assigned \cup solution.unassigned

InitRuin == problem \in Problems /\ IdleReader /\ IdleRuin /\ IdleEstimation /\ IdleConfig

\* ClusterRemoval::new(problem, start..end, min_jobs, max_jobs, threshold), for
\* any two limits.  No modelled code reads the threshold: it is 1 throughout.
New ==
    /\ removal = None
    /\ \E start, end \in (MinClusterPoints - 1)..MaxClusterSize,
             min_jobs, max_jobs \in 0..MaxLimit :
          removal' = Some(ClusterRemoval_new(problem, start, end, min_jobs, max_jobs, 1))
    /\ UNCHANGED <<problem, runs, values, curvature, epsilon, config, builder, result,
                 api_problem, reading>>

\* One call of run with the injected source random on the candidate solution.
RunWith(random, solution) ==
    LET self == removal[1]
        insertion_ctx == [problem |-> problem, random |-> random, solution |-> solution]
    IN  \E order \in Shuffles(ClustersToShuffle(self, insertion_ctx)) :
            LET out == ClusterRemoval_run(self, insertion_ctx, order)
            IN  runs' = Append(runs, [random |-> random, solution |-> solution,
                                      panic |-> out.panic, clusters |-> out.clusters,
                                      returned |-> out.returned])

\* ClusterRemoval::run(ctx, insertion_ctx)
Run ==
    /\ removal # None /\ runs = <<>>
    /\ \E random \in RandomSources(problem, removal[1]), solution \in Candidates(problem) :
          RunWith(random, solution)
    /\ UNCHANGED <<problem, removal, values, curvature, epsilon, config, builder, result,
                 api_problem, reading>>

\* run once more, on the same candidate, with the injected source seeded as before.
RunAgain ==
    /\ Len(runs) = 1
    /\ RunWith(runs[1].random, runs[1].solution)
    /\ UNCHANGED <<problem, removal, values, curvature, epsilon, config, builder, result,
                 api_problem, reading>>

NextRuin == New \/ Run \/ RunAgain

SpecRuin == InitRuin /\ [][NextRuin]_vars

(***************************************************************************)
(* The states and the steps of epsilon estimation.  SpecCurvature applies  *)
(* get_max_curvature to curves of arbitrary points.  SpecEstimation starts *)
(* from a problem and the empty curve and applies estimate_epsilon and     *)
(* get_max_curvature.  SpecNew starts from a problem and applies           *)
(* ClusterRemoval::new, which estimates one epsilon per entry of its table.*)
(***************************************************************************)
Points == [x : 0..MaxCoord, y : 0..MaxCoord]

Curves == UNION {[1..n -> Points] : n \in 0..MaxCurveLen}

\* A problem without jobs.
NoJobs == Problem(<<>>, <<1>>)

InitCurvature ==
    /\ IdleReader /\ IdleRuin /\ IdleConfig
    /\ curvature = None /\ epsilon = None
    /\ problem = NoJobs /\ values \in Curves

InitEstimation ==
    /\ IdleReader /\ IdleRuin /\ IdleConfig
    /\ curvature = None /\ epsilon = None
    /\ problem \in Problems /\ values = <<>>

\* get_max_curvature(values)
GetMaxCurvature ==
    /\ curvature = None
    /\ curvature' = Some(get_max_curvature(values))
    /\ UNCHANGED <<problem, removal, runs, values, epsilon, config, builder, result,
                 api_problem, reading>>

\* estimate_epsilon(problem, nth_neighbor)
EstimateEpsilon ==
    /\ epsilon = None
    /\ \E nth_neighbor \in 0..MaxNth :
          epsilon' = Some([nth |-> nth_neighbor, ret |-> estimate_epsilon(problem, nth_neighbor)])
    /\ UNCHANGED <<problem, removal, runs, values, curvature, config, builder, result,
                 api_problem, reading>>

NextEstimation == GetMaxCurvature \/ EstimateEpsilon

SpecEstimation == InitEstimation /\ [][NextEstimation]_vars

NextNew == New

SpecNew == InitEstimation /\ [][NextNew]_vars

NextCurvature == GetMaxCurvature

SpecCurvature == InitCurvature /\ [][NextCurvature]_vars

(***************************************************************************)
(* The solver configuration (vrp-cli, extensions/solve/config.rs).         *)
(*                                                                         *)
(* The Builder of vrp-core is a record of its settings.  A problem is the  *)
(* name of the shared instance (what Arc<Problem> points to): two handles  *)
(* are the same instance when the names are equal.  A termination setting  *)
(* is an Option, as in the source; for the other settings None stands for  *)
(* the builder's own default.                                              *)
(***************************************************************************)
\* Builder::new(problem)
Builder_new(p) ==
    [problem |-> p, logger |-> "default",
     initial_methods |-> None, initial_size |-> None, population_size |-> None,
     elite_size |-> None, offspring_size |-> None,
     mutation |-> None,
     max_time |-> None, max_generations |-> None, cost_variation |-> None]

\* The setters of the Builder.
with_logger(b, logger) == [b EXCEPT !.logger = logger]
with_initial_methods(b, methods) == [b EXCEPT !.initial_methods = Some(methods)]
with_initial_size(b, size) == [b EXCEPT !.initial_size = Some(size)]
with_population_size(b, size) == [b EXCEPT !.population_size = Some(size)]
with_elite_size(b, size) == [b EXCEPT !.elite_size = Some(size)]
with_offspring_size(b, size) == [b EXCEPT !.offspring_size = Some(size)]
with_mutation(b, mutation) == [b EXCEPT !.mutation = Some(mutation)]
with_max_time(b, limit) == [b EXCEPT !.max_time = limit]
with_max_generations(b, limit) == [b EXCEPT !.max_generations = limit]
with_cost_variation(b, variation) == [b EXCEPT !.cost_variation = variation]

\* The boxed recreate method and its weight.
create_recreate_method(method) ==
    <<CASE method.type = "cheapest" -> "RecreateWithCheapest"
        [] method.type = "regret" ->
              [type |-> "RecreateWithRegret", start |-> method.start, end |-> method.end]
        [] method.type = "blinks" -> "RecreateWithBlinks"
        [] method.type = "gaps" -> [type |-> "RecreateWithGaps", min |-> method.min]
        [] method.type = "nearest" -> "RecreateWithNearestNeighbor",
      method.weight>>

configure_from_population(b, population_config) ==
    IF population_config = None THEN b
    ELSE LET c == population_config[1]
             b1 == IF c.initial_methods # None
                   THEN with_initial_methods(b,
                            [i \in DOMAIN c.initial_methods[1] |->
                                create_recreate_method(c.initial_methods[1][i])])
                   ELSE b
             b2 == IF c.initial_size # None THEN with_initial_size(b1, c.initial_size[1]) ELSE b1
             b3 == IF c.population_size # None
                   THEN with_population_size(b2, c.population_size[1]) ELSE b2
             b4 == IF c.elite_size # None THEN with_elite_size(b3, c.elite_size[1]) ELSE b3
         IN  IF c.offspring_size # None THEN with_offspring_size(b4, c.offspring_size[1]) ELSE b4

\* The problem a shared handle points to.
Instance(p) == IF p = "problem_a" THEN NoJobs ELSE Problem(<<0, 0, 1, 1>>, <<1>>)

\* The Removal Limit and the ruin strategies of vrp-core, each a record of
\* what its constructor is given.
JobRemovalLimit_new(min, max, threshold) == [min |-> min, max |-> max, threshold |-> threshold]
AdjustedStringRemoval_new(lmax, cavg, alpha) ==
    [type |-> "AdjustedStringRemoval", lmax |-> lmax, cavg |-> cavg, alpha |-> alpha]
NeighbourRemoval_new(limit) == [type |-> "NeighbourRemoval", limit |-> limit]
RandomJobRemoval_new(limit) == [type |-> "RandomJobRemoval", limit |-> limit]
RandomRouteRemoval_new(min, max, threshold) ==
    [type |-> "RandomRouteRemoval", min |-> min, max |-> max, threshold |-> threshold]
WorstJobRemoval_new(worst_skip, limit) ==
    [type |-> "WorstJobRemoval", skip |-> worst_skip, limit |-> limit]

\* create_ruin_method: the strategy and its probability.  The cluster arm hands
\* ClusterRemoval::new the limit built from min, max and threshold, that is the
\* min_jobs, max_jobs and threshold the constructor keeps.
create_ruin_method(p, method) ==
    CASE method.type = "adjusted-string" ->
            <<AdjustedStringRemoval_new(method.lmax, method.cavg, method.alpha), method.probability>>
      [] method.type = "neighbour" ->
            <<NeighbourRemoval_new(JobRemovalLimit_new(method.min, method.max, method.threshold)),
              method.probability>>
      [] method.type = "random-job" ->
            <<RandomJobRemoval_new(JobRemovalLimit_new(method.min, method.max, method.threshold)),
              method.probability>>
      [] method.type = "random-route" ->
            <<RandomRouteRemoval_new(method.min, method.max, method.threshold), method.probability>>
      [] method.type = "worst-job" ->
            <<WorstJobRemoval_new(method.skip,
                                  JobRemovalLimit_new(method.min, method.max, method.threshold)),
              method.probability>>
      [] method.type = "cluster" ->
            LET limit == JobRemovalLimit_new(method.min, method.max, method.threshold)
            IN  <<[type |-> "ClusterRemoval",
                   removal |-> ClusterRemoval_new(Instance(p), method.cmin, method.cmax,
                                                  limit.min, limit.max, limit.threshold)],
                  method.probability>>

\* create_ruin_group: the methods of the group and the group's weight.
create_ruin_group(p, group) ==
    <<[i \in DOMAIN group.methods |-> create_ruin_method(p, group.methods[i])], group.weight>>

\* RuinAndRecreateMutation::new(recreate, ruin): the recreate methods and the
\* ruin groups; the handle of the builder's problem goes to the ruin groups.
configure_from_mutation(b, mutation_config) ==
    IF mutation_config = None THEN b
    ELSE LET p == b.problem
         IN  with_mutation(b,
                 [recreate |-> [i \in DOMAIN mutation_config[1].recreates |->
                                   create_recreate_method(mutation_config[1].recreates[i])],
                  ruin |-> [i \in DOMAIN mutation_config[1].ruins |->
                               create_ruin_group(p, mutation_config[1].ruins[i])]])

\* configure_from_termination handing each limit to the other setter.
configure_from_termination_swapped(b, termination_config) ==
    IF termination_config = None THEN b
    ELSE LET c == termination_config[1]
             b1 == with_max_time(b, c.max_generations)
             b2 == with_max_generations(b1, c.max_time)
         IN  with_cost_variation(b2,
                 IF c.variation = None THEN None
                 ELSE Some(<<c.variation[1].sample, c.variation[1].cv>>))

\* configure_from_termination with unwrap_or(0) for an omitted max_generations.
configure_from_termination_zero(b, termination_config) ==
    IF termination_config = None THEN b
    ELSE LET c == termination_config[1]
             b1 == with_max_time(b, c.max_time)
             b2 == with_max_generations(b1,
                       IF c.max_generations = None THEN Some(0) ELSE c.max_generations)
         IN  with_cost_variation(b2,
                 IF c.variation = None THEN None
                 ELSE Some(<<c.variation[1].sample, c.variation[1].cv>>))

configure_from_termination(b, termination_config) ==
    IF termination_config = None THEN b
    ELSE LET c == termination_config[1]
             b1 == with_max_time(b, c.max_time)
             b2 == with_max_generations(b1, c.max_generations)
         IN  with_cost_variation(b2,
                 IF c.variation = None THEN None
                 ELSE Some(<<c.variation[1].sample, c.variation[1].cv>>))

\* configure_from_logging with unwrap_or(false): no section, no logging.
configure_from_logging_off_by_default(b, logging_config) ==
    LET is_enabled == IF logging_config = None THEN FALSE ELSE logging_config[1].enabled
    IN  IF ~is_enabled THEN with_logger(b, "noop") ELSE b

configure_from_logging(b, logging_config) ==
    LET is_enabled == IF logging_config = None THEN TRUE ELSE logging_config[1].enabled
    IN  IF ~is_enabled THEN with_logger(b, "noop") ELSE b

\* create_builder_from_config: the builder inside its Ok.
create_builder_from_config(p, c) ==
    LET b0 == Builder_new(p)
        b1 == configure_from_logging(b0, c.logging)
        b2 == configure_from_population(b1, c.population)
        b3 == configure_from_mutation(b2, c.mutation)
    IN  [ok |-> TRUE, builder |-> configure_from_termination(b3, c.termination)]

\* A configuration document is the JSON value read from the reader: a record
\* of its sections under their JSON names, a member that is absent or null
\* being None.  A usize is a number that is not negative.
IsUsize(member) == member = None \/ member[1] >= 0

\* serde_json::from_reader for Config: the sections that deserialize.
\* Population and termination need every number to be a usize, the mutation
\* the type tag "ruin-recreate", logging the member enabled.
Deserializes(document) ==
    /\ document.population # None =>
          \A f \in {"initialSize", "populationSize", "offspringSize", "eliteSize"} :
              IsUsize(document.population[1][f])
    /\ document.mutation # None => document.mutation[1].type = "ruin-recreate"
    /\ document.termination # None =>
          IsUsize(document.termination[1].maxTime)
              /\ IsUsize(document.termination[1].maxGenerations)
    /\ document.logging # None => document.logging[1].enabled # None

\* The Config of a document that deserializes: camelCase members under the
\* names of the fields, the tag of the mutation dropped.
Deserialized(document) ==
    [population |->
        IF document.population = None THEN None
        ELSE Some([initial_methods |-> document.population[1].initialMethods,
                   initial_size |-> document.population[1].initialSize,
                   population_size |-> document.population[1].populationSize,
                   offspring_size |-> document.population[1].offspringSize,
                   elite_size |-> document.population[1].eliteSize]),
     mutation |->
        IF document.mutation = None THEN None
        ELSE Some([ruins |-> document.mutation[1].ruins,
                   recreates |-> document.mutation[1].recreates]),
     termination |->
        IF document.termination = None THEN None
        ELSE Some([max_time |-> document.termination[1].maxTime,
                   max_generations |-> document.termination[1].maxGenerations,
                   variation |-> document.termination[1].variation]),
     logging |->
        IF document.logging = None THEN None
        ELSE Some([enabled |-> document.logging[1].enabled[1]])]

\* read_config
read_config(document) ==
    IF Deserializes(document) THEN [ok |-> TRUE, config |-> Deserialized(document)]
    ELSE [ok |-> FALSE, error |-> "cannot deserialize config"]

\* create_builder_from_config_file
create_builder_from_config_file(p, document) ==
    LET read == read_config(document)
    IN  IF read.ok THEN create_builder_from_config(p, read.config)
        ELSE [ok |-> FALSE, error |-> read.error]

(***************************************************************************)
(* The configurations and the builders of the model.                       *)
(***************************************************************************)
MaxSize == 1         \* the sizes of the population section are 0..MaxSize
MaxTermination == 1  \* max time and max generations are 0..MaxTermination

Optional(S) == {None} \cup {Some(v) : v \in S}

RecreateMethods ==
    {[type |-> "cheapest", weight |-> 1], [type |-> "regret", weight |-> 1, start |-> 1, end |-> 2],
     [type |-> "blinks", weight |-> 1], [type |-> "gaps", weight |-> 1, min |-> 2],
     [type |-> "nearest", weight |-> 1]}

PopulationConfigs ==
    [initial_methods : Optional({<<m>> : m \in RecreateMethods}),
     initial_size : Optional(0..MaxSize), population_size : Optional(0..MaxSize),
     offspring_size : Optional(0..MaxSize), elite_size : Optional(0..MaxSize)]

MutationConfigs == {[ruins |-> <<>>, recreates |-> rs] : rs \in {<<>>} \cup {<<m>> : m \in RecreateMethods}}

\* The ruin methods: limits min and max in 0..MaxLimit, cluster sizes as in
\* New, every probability, threshold and other parameter 1.
RuinMethods ==
    {[type |-> t, probability |-> 1, min |-> min, max |-> max, threshold |-> 1] :
        t \in {"neighbour", "random-job", "random-route"}, min, max \in 0..MaxLimit}
    \cup {[type |-> "worst-job", probability |-> 1, min |-> min, max |-> max, threshold |-> 1,
           skip |-> 1] : min, max \in 0..MaxLimit}
    \cup {[type |-> "cluster", probability |-> 1, min |-> min, max |-> max, threshold |-> 1,
           cmin |-> cmin, cmax |-> cmax] :
              min, max \in 0..MaxLimit, cmin, cmax \in (MinClusterPoints - 1)..MaxClusterSize}
    \cup {[type |-> "adjusted-string", probability |-> 1, lmax |-> 1, cavg |-> 1, alpha |-> 1]}

\* Mutation sections with one ruin group of one method.
RuinConfigs ==
    {[ruins |-> <<[methods |-> <<m>>, weight |-> 1]>>, recreates |-> <<>>] : m \in RuinMethods}

TerminationConfigs ==
    [max_time : Optional(0..MaxTermination), max_generations : Optional(0..MaxTermination),
     variation : Optional({[sample |-> MaxTermination, cv |-> 0]})]

LoggingConfigs == [enabled : BOOLEAN]

Configs ==
    [population : Optional(PopulationConfigs), mutation : Optional(MutationConfigs),
     termination : Optional(TerminationConfigs), logging : Optional(LoggingConfigs)]

\* The configuration documents: numbers from -1, a mutation with the known
\* tag or another one, a logging section with or without enabled; at most
\* two sections in a document.
DocumentPopulations ==
    [initialMethods : Optional({<<[type |-> "cheapest", weight |-> 1]>>}),
     initialSize : Optional(-1..MaxSize), populationSize : Optional(-1..MaxSize),
     offspringSize : Optional(-1..MaxSize), eliteSize : Optional(-1..MaxSize)]

DocumentMutations == [type : {"ruin-recreate", "other"}, ruins : {<<>>}, recreates : {<<>>}]

DocumentTerminations ==
    [maxTime : Optional(-1..MaxTermination), maxGenerations : Optional(-1..MaxTermination),
     variation : Optional({[sample |-> MaxTermination, cv |-> 0]})]

DocumentLoggings == [enabled : Optional(BOOLEAN)]

Documents ==
    {d \in [population : Optional(DocumentPopulations), mutation : Optional(DocumentMutations),
            termination : Optional(DocumentTerminations),
            logging : Optional(DocumentLoggings)] :
        Cardinality({f \in {"population", "mutation", "termination", "logging"} :
                        d[f] # None}) <= 2}

\* The number of sections a configuration holds.
Sections(c) ==
    Cardinality({f \in {"population", "mutation", "termination", "logging"} : c[f] # None})

\* The shared problem instances.
ProblemInstances == {"problem_a", "problem_b"}

\* Builders as a caller may have set them up before a configure_from_* call.
Builders ==
    {[Builder_new(p) EXCEPT !.logger = l, !.max_time = t, !.max_generations = t,
                            !.cost_variation = IF t = None THEN None ELSE Some(<<1, 0>>),
                            !.initial_size = t] :
        p \in ProblemInstances, l \in {"default", "custom"}, t \in Optional({MaxTermination})}

\* SpecConfig: create_builder_from_config on any configuration.
InitConfig ==
    /\ problem = NoJobs /\ IdleReader /\ IdleRuin /\ IdleEstimation
    /\ config \in Configs /\ builder = None /\ result = None

CreateBuilderFromConfig ==
    /\ result = None /\ builder = None
    /\ \E p \in ProblemInstances :
          LET out == create_builder_from_config(p, config)
          IN  result' = Some([op |-> "create_builder_from_config", problem |-> p,
                              ok |-> out.ok, builder |-> out.builder])
    /\ UNCHANGED <<problem, removal, runs, values, curvature, epsilon, config, builder,
                 api_problem, reading>>

NextConfig == CreateBuilderFromConfig

SpecConfig == InitConfig /\ [][NextConfig]_vars

\* SpecConfigure: one configure_from_* function applied to a builder.  Each
\* reads one section only, so the configurations hold at most one section.
InitConfigure ==
    /\ problem = NoJobs /\ IdleReader /\ IdleRuin /\ IdleEstimation
    /\ config \in {c \in Configs : Sections(c) <= 1}
    /\ builder \in {Some(b) : b \in Builders}
    /\ result = None

Configured(op, b) ==
    /\ result = None /\ builder # None
    /\ result' = Some([op |-> op, problem |-> builder[1].problem, builder |-> b])
    /\ UNCHANGED <<problem, removal, runs, values, curvature, epsilon, config, builder,
                 api_problem, reading>>

ConfigureFromLogging ==
    Configured("configure_from_logging", configure_from_logging(builder[1], config.logging))

ConfigureFromPopulation ==
    Configured("configure_from_population", configure_from_population(builder[1], config.population))

ConfigureFromMutation ==
    Configured("configure_from_mutation", configure_from_mutation(builder[1], config.mutation))

ConfigureFromTermination ==
    Configured("configure_from_termination", configure_from_termination(builder[1], config.termination))

NextConfigure ==
    \/ ConfigureFromLogging
    \/ ConfigureFromPopulation
    \/ ConfigureFromMutation
    \/ ConfigureFromTermination

SpecConfigure == InitConfigure /\ [][NextConfigure]_vars

\* SpecRuinMethod: configure_from_mutation on a mutation section with a ruin
\* method, for a new builder.
InitRuinMethod ==
    /\ problem = NoJobs /\ IdleReader /\ IdleRuin /\ IdleEstimation
    /\ config \in {[NoConfig EXCEPT !.mutation = Some(m)] : m \in RuinConfigs}
    /\ builder \in {Some(Builder_new(p)) : p \in ProblemInstances}
    /\ result = None

NextRuinMethod == ConfigureFromMutation

SpecRuinMethod == InitRuinMethod /\ [][NextRuinMethod]_vars

\* SpecConfigFile: read_config and create_builder_from_config_file on a
\* configuration document.
InitConfigFile ==
    /\ problem = NoJobs /\ IdleReader /\ IdleRuin /\ IdleEstimation /\ IdleConfig

ReadConfig ==
    /\ result = None
    /\ \E document \in Documents :
          result' = Some([op |-> "read_config", document |-> document,
                          out |-> read_config(document)])
    /\ UNCHANGED <<problem, removal, runs, values, curvature, epsilon, config, builder,
                   api_problem, reading>>

CreateBuilderFromConfigFile ==
    /\ result = None
    /\ \E p \in ProblemInstances, document \in Documents :
          result' = Some([op |-> "create_builder_from_config_file", problem |-> p,
                          document |-> document,
                          out |-> create_builder_from_config_file(p, document)])
    /\ UNCHANGED <<problem, removal, runs, values, curvature, epsilon, config, builder,
                   api_problem, reading>>

NextConfigFile == ReadConfig \/ CreateBuilderFromConfigFile

SpecConfigFile == InitConfigFile /\ [][NextConfigFile]_vars

(***************************************************************************)
(* Properties of the ruin strategy, checked under SpecRuin.                *)
(***************************************************************************)
\* C1: every call of run returns a candidate that holds exactly the work units
\* (assigned and unassigned together) of the candidate it was given.
C1_RunKeepsWorkUnits ==
    \A i \in DOMAIN runs :
        /\ runs[i].returned # None
        /\ WorkUnits(runs[i].returned[1]) = WorkUnits(runs[i].solution)

\* C2: run is total: no call of run ends in a panic.
C2_RunNeverPanics == \A i \in DOMAIN runs : runs[i].panic = ""

\* C3: in every call of run that gets as far as the selection from the table
\* of (min_pts, epsilon) pairs, the index drawn is an index of the table.
C3_TableIndexInBounds ==
    \A i \in DOMAIN runs :
        (runs[i].random.int1 < Len(problem.profiles) /\ runs[i].random.int2 # None) =>
            /\ 0 <= runs[i].random.int2[1]
            /\ runs[i].random.int2[1] < Len(removal[1].params)

\* C7: two calls of run on the same problem and candidate whose injected random
\* sources are seeded alike end with the same cluster list in the same order.
C7_SameSeedSameClusters ==
    \A i, j \in DOMAIN runs :
        (runs[i].random = runs[j].random /\ runs[i].solution = runs[j].solution)
            => runs[i].clusters = runs[j].clusters

\* C14: in create_job_clusters the index drawn with uniform_int(0, number of
\* profiles) is a valid index of problem.fleet.profiles, at least 0 and less
\* than the number of profiles, so selecting the profile never fails.
C14_ProfileIndexInBounds ==
    \A i \in DOMAIN runs :
        /\ 0 <= runs[i].random.int1 /\ runs[i].random.int1 < Len(problem.profiles)
        /\ runs[i].panic # "profiles index out of bounds"

(***************************************************************************)
(* Properties of epsilon estimation: C4 is checked under SpecEstimation,   *)
(* C5 under SpecCurvature and C6 under SpecNew.                            *)
(***************************************************************************)
\* C4: get_max_curvature returns 0 for the empty curve, and estimate_epsilon
\* returns 0 for a problem without jobs.
C4_EmptyInputGivesZero ==
    /\ (curvature # None /\ values = <<>>) => curvature[1] = 0
    /\ (epsilon # None /\ JobsSize(problem) = 0) => epsilon[1].ret = 0

\* Both calls made, on the empty curve and on a problem without jobs.
C4_Witness ==
    /\ curvature # None /\ values = <<>>
    /\ epsilon # None /\ JobsSize(problem) = 0

\* The distance of point i of the curve vs to the line through its first and last points.
DistanceOf(vs, i) == distance_to_line(vs[i], vs[1], vs[Len(vs)])

\* Point i is the earliest point of vs at maximal distance from that line.
EarliestFarthest(vs, i) ==
    /\ \A j \in 1..Len(vs) : DistanceOf(vs, j) <= DistanceOf(vs, i)
    /\ \A j \in 1..(i - 1) : DistanceOf(vs, j) < DistanceOf(vs, i)

\* C5: for a non-empty curve get_max_curvature returns the y-value of the
\* earliest point whose distance to the line through the first and the last
\* point of the curve is maximal.
C5_KneeIsEarliestFarthestPoint ==
    (curvature # None /\ values # <<>>) =>
        \E i \in 1..Len(values) :
            EarliestFarthest(values, i) /\ curvature[1] = values[i].y

\* A curve of three points whose knee is the middle one, with a later point
\* that would give another value.
C5_Witness ==
    /\ curvature # None /\ Len(values) = 3
    /\ EarliestFarthest(values, 2)
    /\ curvature[1] = values[2].y
    /\ values[1].y # values[2].y /\ values[3].y # values[2].y

\* The jobs other than job.
OtherJobs(p, job) == (1..JobsSize(p)) \ {job}

\* c is the cost from job to the neighbour at position rank (counted from 0) of
\* its neighbours in ascending order of cost: it is the cost to a neighbour, at
\* most rank neighbours cost less and more than rank neighbours cost no more.
IsRankedCost(p, profile, job, rank, c) ==
    LET cost(other) == TransportCost(profile, p.jobs[job], p.jobs[other])
    IN  /\ \E other \in OtherJobs(p, job) : cost(other) = c
        /\ Cardinality({other \in OtherJobs(p, job) : cost(other) < c}) <= rank
        /\ Cardinality({other \in OtherJobs(p, job) : cost(other) <= c}) > rank

NeighbourCosts(p, profile, job) ==
    {TransportCost(profile, p.jobs[job], p.jobs[other]) : other \in OtherJobs(p, job)}

HasRankedNeighbour(p, profile, job, rank) ==
    \E c \in NeighbourCosts(p, profile, job) : IsRankedCost(p, profile, job, rank, c)

RankedCost(p, profile, job, rank) ==
    CHOOSE c \in NeighbourCosts(p, profile, job) : IsRankedCost(p, profile, job, rank, c)

\* The sum over the first k profiles of the ranked costs of job, a job without
\* a neighbour of that rank counting orElse.
RECURSIVE SumRankedCosts(_, _, _, _, _)
SumRankedCosts(p, job, rank, k, orElse) ==
    IF k = 0 THEN 0
    ELSE SumRankedCosts(p, job, rank, k - 1, orElse)
         + (IF HasRankedNeighbour(p, p.profiles[k], job, rank)
            THEN RankedCost(p, p.profiles[k], job, rank) ELSE orElse)

\* avg is the average over the profiles of the ranked costs of job.
IsAverageRankedCost(p, job, rank, avg) ==
    avg * Len(p.profiles) = SumRankedCosts(p, job, rank, Len(p.profiles), 0)

\* The curve holds the values of costs in ascending order, at x = 0, 1, 2, ...
IsSortedCurveOf(curve, costs) ==
    /\ Len(curve) = Len(costs)
    /\ \A i \in 1..Len(curve) : curve[i].x = i - 1
    /\ \A i, j \in 1..Len(curve) : i <= j => curve[i].y <= curve[j].y
    /\ \A v \in {costs[i] : i \in 1..Len(costs)} \cup {curve[i].y : i \in 1..Len(curve)} :
          Cardinality({i \in 1..Len(costs) : costs[i] = v})
              = Cardinality({i \in 1..Len(curve) : curve[i].y = v})

\* For the table entry k: the k-distances are sorted ascending into the curve
\* whose knee is the entry's epsilon.
KneeOfSortedKDistances(k) ==
    LET min_pts == removal[1].params[k][1]
        costs == get_average_costs(problem, min_pts - 1)
        curve == EpsilonCurve(problem, min_pts - 1)
    IN  /\ IsSortedCurveOf(curve, costs)
        /\ removal[1].params[k][2] = get_max_curvature(curve)

\* C6: for every min_pts of the table built by new, the k-distance of every
\* job that has a (min_pts - 1)-th nearest neighbour in every profile (the
\* neighbour at position min_pts - 2, counted from 0, of its neighbours
\* nearest first) is the average over the profiles of the costs to these
\* neighbours; the k-distances are sorted ascending before the knee is searched.
C6_KDistanceIsNeighbourCost ==
    removal # None =>
        \A k \in DOMAIN removal[1].params :
            LET min_pts == removal[1].params[k][1]
                costs == get_average_costs(problem, min_pts - 1)
            IN  /\ \A job \in 1..JobsSize(problem) :
                      (\A f \in DOMAIN problem.profiles :
                          HasRankedNeighbour(problem, problem.profiles[f], job, min_pts - 2))
                          => IsAverageRankedCost(problem, job, min_pts - 2, costs[job])
                /\ KneeOfSortedKDistances(k)

\* What new computes: the k-distance of a job is the average over the profiles
\* of the costs to its min_pts-th nearest neighbour, one neighbour further
\* than the (min_pts - 1)-th, with 0 as the cost in a profile where the job
\* has fewer than min_pts neighbours.
KDistanceIsOneNeighbourFurtherOrZero ==
    removal # None =>
        \A k \in DOMAIN removal[1].params :
            LET min_pts == removal[1].params[k][1]
                costs == get_average_costs(problem, min_pts - 1)
            IN  /\ \A job \in 1..JobsSize(problem) :
                      IsAverageRankedCost(problem, job, min_pts - 1, costs[job])
                /\ KneeOfSortedKDistances(k)

\* Every job has a (min_pts - 1)-th and a min_pts-th nearest neighbour in every
\* profile, and for some job the k-distance of the table's first entry is not
\* the average cost to its (min_pts - 1)-th nearest neighbours.
OneNeighbourFurther ==
    /\ removal # None /\ JobsSize(problem) >= 1
    /\ LET min_pts == removal[1].params[1][1]
           costs == get_average_costs(problem, min_pts - 1)
       IN  /\ \A job \in 1..JobsSize(problem), f \in DOMAIN problem.profiles :
                 HasRankedNeighbour(problem, problem.profiles[f], job, min_pts - 1)
           /\ \E job \in 1..JobsSize(problem) :
                 ~IsAverageRankedCost(problem, job, min_pts - 2, costs[job])

(***************************************************************************)
(* Properties of the configuration: C8 is checked under SpecConfigure, C9  *)
(* and C10 under SpecConfig, C11 under SpecConfigFile, C12 under           *)
(* SpecRuinMethod.                                                         *)
(***************************************************************************)
\* The logging section is present and says enabled = false.
LoggingDisabled == config.logging # None /\ ~config.logging[1].enabled

\* C8: configure_from_logging returns the builder with the no-op logger in
\* place of its logger, and nothing else changed, when the logging section
\* says enabled = false; it returns the builder as it was when the section is
\* absent or says enabled = true.  The no-op logger is installed in no other case.
C8_LoggingOnlySwapsTheSink ==
    (result # None /\ result[1].op = "configure_from_logging") =>
        /\ LoggingDisabled => result[1].builder = [builder[1] EXCEPT !.logger = "noop"]
        /\ ~LoggingDisabled => result[1].builder = builder[1]
        /\ result[1].builder.logger = "noop" <=> LoggingDisabled

\* Logging disabled on a builder that had a logger and limits of its own.
C8_Witness ==
    /\ result # None /\ result[1].op = "configure_from_logging"
    /\ LoggingDisabled
    /\ builder[1].logger = "custom" /\ builder[1].max_time # None
    /\ result[1].builder.logger = "noop"

\* C9: when the termination section sets max time and max generations, the
\* builder returned by create_builder_from_config holds exactly these values,
\* and its problem is the instance that was passed in.
C9_BuilderCarriesConfiguredLimits ==
    (/\ result # None /\ result[1].op = "create_builder_from_config"
     /\ config.termination # None
     /\ config.termination[1].max_time # None
     /\ config.termination[1].max_generations # None) =>
        /\ result[1].builder.max_time = config.termination[1].max_time
        /\ result[1].builder.max_generations = config.termination[1].max_generations
        /\ result[1].builder.problem = result[1].problem

\* Both limits set, to different values, in a configuration with every section.
C9_Witness ==
    /\ result # None /\ result[1].op = "create_builder_from_config"
    /\ Sections(config) = 4
    /\ config.termination[1].max_time = Some(1)
    /\ config.termination[1].max_generations = Some(0)
    /\ result[1].builder.max_time = Some(1)

\* The termination section does not set the field f.
TerminationUnset(f) == config.termination = None \/ config.termination[1][f] = None

\* C10: a termination threshold (max time, max generations, cost variation)
\* the configuration does not set has the default of Builder::new in the
\* builder returned by create_builder_from_config, whether the termination
\* section is absent or present without that field.
C10_UnsetThresholdsKeepDefaults ==
    (result # None /\ result[1].op = "create_builder_from_config") =>
        LET default == Builder_new(result[1].problem)
        IN  /\ TerminationUnset("max_time") =>
                  result[1].builder.max_time = default.max_time
            /\ TerminationUnset("max_generations") =>
                  result[1].builder.max_generations = default.max_generations
            /\ TerminationUnset("variation") =>
                  result[1].builder.cost_variation = default.cost_variation

\* A termination section that sets max time only.
C10_Witness ==
    /\ result # None /\ result[1].op = "create_builder_from_config"
    /\ config.termination # None
    /\ config.termination[1].max_time = Some(1)
    /\ config.termination[1].max_generations = None
    /\ config.termination[1].variation = None
    /\ result[1].builder.max_time = Some(1)
    /\ result[1].builder.max_generations = None

\* A document whose population section has a size that is not positive.
HasNonPositiveSize(document) ==
    /\ document.population # None
    /\ \E f \in {"initialSize", "populationSize", "eliteSize", "offspringSize"} :
          document.population[1][f] # None /\ document.population[1][f][1] <= 0

\* C11: a configuration document with a non-positive initial, population,
\* elite or offspring size is answered with an error by read_config and by
\* create_builder_from_config_file, which hands the configuration read to
\* create_builder_from_config: no configuration and no builder is returned.
C11_NonPositiveSizeIsAnError ==
    (/\ result # None
     /\ result[1].op \in {"read_config", "create_builder_from_config_file"}
     /\ HasNonPositiveSize(result[1].document)) => ~result[1].out.ok

\* The ruin strategies of the mutation a builder holds.
RuinStrategies(b) ==
    IF b.mutation = None THEN {}
    ELSE UNION {{b.mutation[1].ruin[g][1][i][1] : i \in DOMAIN b.mutation[1].ruin[g][1]} :
                   g \in DOMAIN b.mutation[1].ruin}

\* The strategies that hold a Removal Limit, and the limits min and max they hold.
HoldsLimit(s) == s.type # "AdjustedStringRemoval"
LimitMin(s) ==
    CASE s.type = "ClusterRemoval" -> s.removal.min
      [] s.type = "RandomRouteRemoval" -> s.min
      [] OTHER -> s.limit.min
LimitMax(s) ==
    CASE s.type = "ClusterRemoval" -> s.removal.max
      [] s.type = "RandomRouteRemoval" -> s.max
      [] OTHER -> s.limit.max

\* C12: every Removal Limit held by a ruin strategy that create_ruin_method
\* built from the configuration (neighbour, random-job, random-route,
\* worst-job, cluster) has min <= max.
C12_RemovalLimitsAreOrdered ==
    (result # None /\ result[1].op = "configure_from_mutation") =>
        \A s \in RuinStrategies(result[1].builder) :
            HoldsLimit(s) => LimitMin(s) <= LimitMax(s)

(***************************************************************************)
(* The problem reader (vrp-pragmatic, format/problem/problem_reader.rs).   *)
(*                                                                         *)
(* An ApiProblem is the list of its vehicle types, each with its type id,  *)
(* its vehicle ids and its shifts; a shift has the optional list of its    *)
(* breaks.  The validation, the transport costs, the dynamic costs, the    *)
(* goal and the cluster configuration are built elsewhere: each either     *)
(* succeeds or fails, as the record outcomes says; for the cluster         *)
(* configuration outcomes holds the Result create_cluster_config returns.  *)
(***************************************************************************)
MaxShifts == 2   \* the first vehicle type has 1..MaxShifts shifts
MaxBreaks == 2   \* with at most MaxBreaks breaks in all

\* The breaks: a required break at exact times, a required break at offsets
\* and an optional break (read_reserved_times_index reads none of its fields).
ExactBreak ==
    [kind |-> "Required", duration |-> 1,
     time |-> [kind |-> "ExactTime", earliest |-> "1970-01-01T00:00:01Z",
                                     latest |-> "1970-01-01T00:00:02Z"]]
OffsetBreak ==
    [kind |-> "Required", duration |-> 2,
     time |-> [kind |-> "OffsetTime", earliest |-> 1, latest |-> 2]]
OptionalBreak == [kind |-> "Optional"]

VehicleBreaks == {ExactBreak, OffsetBreak, OptionalBreak}

\* parse_time: the seconds since the epoch of an RFC 3339 timestamp.
parse_time(time) ==
    CASE time = "1970-01-01T00:00:01Z" -> 1
      [] time = "1970-01-01T00:00:02Z" -> 2

SeqsUpTo(S, n) == UNION {[1..k -> S] : k \in 0..n}

VehicleShifts == [breaks : Optional(SeqsUpTo(VehicleBreaks, MaxBreaks))]

\* The breaks of a shift, none when the list is absent.
BreaksOf(shift) == IF shift.breaks = None THEN <<>> ELSE shift.breaks[1]

RECURSIVE BreakCount(_)
BreakCount(shifts) ==
    IF shifts = <<>> THEN 0 ELSE Len(BreaksOf(Head(shifts))) + BreakCount(Tail(shifts))

ShiftLists ==
    {shifts \in UNION {[1..n -> VehicleShifts] : n \in 1..MaxShifts} :
        BreakCount(shifts) <= MaxBreaks}

\* The problems: a vehicle type with two vehicles and, in some, a second type
\* with one vehicle and one shift.
ApiProblems ==
    {[vehicles |-> <<[type_id |-> "type_a", vehicle_ids |-> <<"a1", "a2">>, shifts |-> shifts]>>
                   \o others] :
        shifts \in ShiftLists,
        others \in {<<>>} \cup
                   {<<[type_id |-> "type_b", vehicle_ids |-> <<"b1">>,
                       shifts |-> <<[breaks |-> breaks]>>]>> :
                       breaks \in {None, Some(<<OffsetBreak>>)}}}

\* What the collaborators of the reader answer: TRUE for Ok, FALSE for Err,
\* and for create_cluster_config its Result<Option<ClusterConfig>, _>.
Outcomes ==
    [validate : BOOLEAN, transport : BOOLEAN, dynamic_transport : BOOLEAN,
     dynamic_activity : BOOLEAN, goal : BOOLEAN,
     cluster_config : {Err("cluster config"), Ok(None), Ok(Some("cluster_config"))}]

\* iter().flat_map(...): the sequences of seqs one after the other.
RECURSIVE Flatten(_)
Flatten(seqs) == IF seqs = <<>> THEN <<>> ELSE Head(seqs) \o Flatten(Tail(seqs))

\* read_fleet: one actor per vehicle type, shift and vehicle id; its
\* dimensions hold the type id and the index of the shift, from 0.
read_fleet(api) ==
    [actors |->
        Flatten([v \in DOMAIN api.vehicles |->
            Flatten([s \in DOMAIN api.vehicles[v].shifts |->
                [i \in DOMAIN api.vehicles[v].vehicle_ids |->
                    [vehicle_id |-> api.vehicles[v].vehicle_ids[i],
                     type_id |-> api.vehicles[v].type_id,
                     shift_index |-> s - 1]]])])]

\* The tuples (type id, shift index, time, duration) of the required breaks,
\* in the order of the vehicles, their shifts and the breaks of a shift.
RequiredBreakData(api) ==
    LET IsRequired(br) == br.kind = "Required"
        OfShift(vehicle, shift_idx, shift) ==
            LET required == SelectSeq(BreaksOf(shift), IsRequired)
            IN  [i \in DOMAIN required |->
                    <<vehicle.type_id, shift_idx, required[i].time, required[i].duration>>]
        OfVehicle(vehicle) ==
            Flatten([s \in DOMAIN vehicle.shifts |-> OfShift(vehicle, s - 1, vehicle.shifts[s])])
    IN  Flatten([v \in DOMAIN api.vehicles |-> OfVehicle(api.vehicles[v])])

\* breaks_map.get(&(type_id, shift_idx)) run through flat_map: the data
\* grouped under the key, nothing when the key is absent.
GroupOfTypeOnly(data, type_id, shift_idx) ==
    LET HasKey(d) == d[1] = type_id
    IN  SelectSeq(data, HasKey)

GroupOf(data, type_id, shift_idx) ==
    LET HasKey(d) == d[1] = type_id /\ d[2] = shift_idx
    IN  SelectSeq(data, HasKey)

\* The reserved time span of a required break.
ToReservedTimeSpan(time, duration) ==
    [time |-> CASE time.kind = "ExactTime" ->
                       [kind |-> "Window", start |-> parse_time(time.earliest),
                                           end |-> parse_time(time.latest)]
                [] time.kind = "OffsetTime" ->
                       [kind |-> "Offset", start |-> time.earliest, end |-> time.latest],
     duration |-> duration]

\* read_reserved_times_index with the breaks grouped by the vehicle type alone.
read_reserved_times_index_any_shift(api, fleet) ==
    LET data == RequiredBreakData(api)
        times(actor) ==
            LET group == GroupOfTypeOnly(data, actor.type_id, actor.shift_index)
            IN  [i \in DOMAIN group |-> ToReservedTimeSpan(group[i][3], group[i][4])]
    IN  [actor \in {fleet.actors[i] : i \in {j \in DOMAIN fleet.actors : times(fleet.actors[j]) # <<>>}}
            |-> times(actor)]

\* read_reserved_times_index: the map from an actor to its reserved time spans.
read_reserved_times_index(api, fleet) ==
    LET data == RequiredBreakData(api)
        times(actor) ==
            LET group == GroupOf(data, actor.type_id, actor.shift_index)
            IN  [i \in DOMAIN group |-> ToReservedTimeSpan(group[i][3], group[i][4])]
    IN  [actor \in {fleet.actors[i] : i \in {j \in DOMAIN fleet.actors : times(fleet.actors[j]) # <<>>}}
            |-> times(actor)]

\* ReservedTimesIndex::is_empty
IsEmptyIndex(index) == DOMAIN index = {}

\* create_extras
create_extras(api, reserved_times_index, outcomes) ==
    LET extras == [coord_index |-> "coord_index", job_index |-> "job_index"]
        with_times == IF ~IsEmptyIndex(reserved_times_index)
                      THEN extras @@ [reserved_times |-> reserved_times_index]
                      ELSE extras
        created == outcomes.cluster_config
    IN  IF ~created.ok THEN Err(created.error)
        ELSE IF created.value # None
        THEN Ok(with_times @@ [cluster_config |-> created.value[1]])
        ELSE Ok(with_times)

\* get_problem_blocks
get_problem_blocks(api, outcomes) ==
    LET fleet == read_fleet(api)
        reserved_times_index == read_reserved_times_index(api, fleet)
        transport == [type |-> "TransportCost"]
        activity == [type |-> "OnlyVehicleActivityCost"]
        blocks(t, a) ==
            [fleet |-> fleet, jobs |-> "jobs", locks |-> "locks", transport |-> t,
             activity |-> a, reserved_times_index |-> reserved_times_index]
    IN  IF ~outcomes.transport THEN Err("E0002 check matrix routing data")
        ELSE IF IsEmptyIndex(reserved_times_index) THEN Ok(blocks(transport, activity))
        ELSE IF ~outcomes.dynamic_transport \/ ~outcomes.dynamic_activity
        THEN Err("E0002 check fleet definition")
        ELSE Ok(blocks([type |-> "DynamicTransportCost",
                        reserved_times |-> reserved_times_index, inner |-> transport],
                       [type |-> "DynamicActivityCost",
                        reserved_times |-> reserved_times_index]))

\* What map_to_problem returns, with the steps it ran.
Returned(calls, ret) == [calls |-> calls, ret |-> ret]

\* map_to_problem once the validation has passed.
AfterValidation(api, outcomes) ==
    LET blocks == get_problem_blocks(api, outcomes)
        extras == create_extras(api, blocks.value.reserved_times_index, outcomes)
    IN  IF ~blocks.ok
        THEN Returned(<<"validate", "get_problem_blocks">>, Err(blocks.error))
        ELSE IF ~outcomes.goal
        THEN Returned(<<"validate", "get_problem_blocks", "create_goal_context">>,
                      Err("E0000"))
        ELSE IF ~extras.ok
        THEN Returned(<<"validate", "get_problem_blocks", "create_goal_context", "create_extras">>,
                      Err("E0002 check clustering config"))
        ELSE Returned(<<"validate", "get_problem_blocks", "create_goal_context", "create_extras">>,
                      Ok([fleet |-> blocks.value.fleet, jobs |-> blocks.value.jobs,
                          locks |-> blocks.value.locks, goal |-> "goal",
                          activity |-> blocks.value.activity,
                          transport |-> blocks.value.transport, extras |-> extras.value]))

\* map_to_problem that goes on when the validation fails.
map_to_problem_unvalidated(api, outcomes) == AfterValidation(api, outcomes)

\* map_to_problem
map_to_problem(api, outcomes) ==
    IF ~outcomes.validate THEN Returned(<<"validate">>, Err("validation"))
    ELSE AfterValidation(api, outcomes)

\* SpecReader: one function of the reader applied to a problem model.
InitReader ==
    /\ problem = NoJobs /\ IdleRuin /\ IdleEstimation /\ IdleConfig
    /\ api_problem \in {Some(api) : api \in ApiProblems}
    /\ reading = None

Read(op, outcomes, out) ==
    /\ reading = None /\ api_problem # None
    /\ reading' = Some([op |-> op, outcomes |-> outcomes, out |-> out])
    /\ UNCHANGED <<problem, removal, runs, values, curvature, epsilon, config, builder, result,
                   api_problem>>

\* The collaborators that all succeed.
AllOk ==
    [validate |-> TRUE, transport |-> TRUE, dynamic_transport |-> TRUE,
     dynamic_activity |-> TRUE, goal |-> TRUE, cluster_config |-> Ok(None)]

ReadReservedTimesIndex ==
    Read("read_reserved_times_index", AllOk,
         read_reserved_times_index(api_problem[1], read_fleet(api_problem[1])))

GetProblemBlocks ==
    \E outcomes \in {o \in Outcomes : o.validate /\ o.goal /\ o.cluster_config = Ok(None)} :
        Read("get_problem_blocks", outcomes, get_problem_blocks(api_problem[1], outcomes))

\* create_extras on the index read from the problem, as map_to_problem calls it.
CreateExtras ==
    \E outcomes \in {o \in Outcomes : AllOk = [o EXCEPT !.cluster_config = Ok(None)]} :
        Read("create_extras", outcomes,
             create_extras(api_problem[1],
                           read_reserved_times_index(api_problem[1], read_fleet(api_problem[1])),
                           outcomes))

MapToProblem ==
    \E outcomes \in Outcomes :
        Read("map_to_problem", outcomes, map_to_problem(api_problem[1], outcomes))

NextReader == ReadReservedTimesIndex \/ GetProblemBlocks \/ CreateExtras \/ MapToProblem

SpecReader == InitReader /\ [][NextReader]_vars

(***************************************************************************)
(* Properties of the problem reader, checked under SpecReader.             *)
(***************************************************************************)
\* The positions <<vehicle type, break>> of the required breaks that the
\* problem has for a type id and a shift index.
RequiredAt(api, type_id, shift_index) ==
    UNION {{<<v, b>> : b \in {k \in DOMAIN BreaksOf(api.vehicles[v].shifts[shift_index + 1]) :
                                 BreaksOf(api.vehicles[v].shifts[shift_index + 1])[k].kind = "Required"}} :
              v \in {w \in DOMAIN api.vehicles :
                        /\ api.vehicles[w].type_id = type_id
                        /\ shift_index + 1 \in DOMAIN api.vehicles[w].shifts}}

\* The actors of the fleet read from the problem.
Actors(api) == {read_fleet(api).actors[i] : i \in DOMAIN read_fleet(api).actors}

\* Some actor's vehicle type and shift have a required break.
HasRequiredBreak(api) ==
    \E actor \in Actors(api) : RequiredAt(api, actor.type_id, actor.shift_index) # {}

\* The index has an entry exactly for the actors whose type and shift have a
\* required break, with one span per required break and never an empty list.
IndexIsOfRequiredBreaks(api, index) ==
    /\ DOMAIN index \subseteq Actors(api)
    /\ \A actor \in Actors(api) :
          LET required == RequiredAt(api, actor.type_id, actor.shift_index)
          IN  /\ actor \in DOMAIN index <=> required # {}
              /\ actor \in DOMAIN index =>
                    /\ Len(index[actor]) = Cardinality(required)
                    /\ index[actor] # <<>>

\* The costs are the dynamic variants, built over the index.
CostsAreDynamic(blocks, index) ==
    /\ blocks.transport.type = "DynamicTransportCost"
    /\ blocks.transport.reserved_times = index
    /\ blocks.activity.type = "DynamicActivityCost"
    /\ blocks.activity.reserved_times = index

\* The costs are the ones built without reserved times.
CostsArePlain(blocks) ==
    /\ blocks.transport.type = "TransportCost"
    /\ blocks.activity.type = "OnlyVehicleActivityCost"

\* The extras hold the index as their reserved times, or no reserved times
\* when the index is empty.
ExtrasHoldReservedTimes(extras, index) ==
    IF IsEmptyIndex(index) THEN "reserved_times" \notin DOMAIN extras
    ELSE "reserved_times" \in DOMAIN extras /\ extras.reserved_times = index

\* The steps of map_to_problem, in order.
Steps == <<"validate", "get_problem_blocks", "create_goal_context", "create_extras">>

\* The step fails on this problem with these collaborators: the blocks fail
\* with the transport costs, or with a dynamic cost when there are reserved times.
StepFails(step, api, outcomes) ==
    CASE step = "validate" -> ~outcomes.validate
      [] step = "get_problem_blocks" ->
            \/ ~outcomes.transport
            \/ HasRequiredBreak(api) /\ ~(outcomes.dynamic_transport /\ outcomes.dynamic_activity)
      [] step = "create_goal_context" -> ~outcomes.goal
      [] step = "create_extras" -> ~outcomes.cluster_config.ok

\* C13: map_to_problem runs the validation first and then the construction
\* of the blocks, of the goal and of the extras, in that order; when one of
\* the four fails it returns an error at once and no CoreProblem; it returns
\* a CoreProblem only after all four succeeded.
C13_ProblemOnlyAfterFourSteps ==
    (reading # None /\ reading[1].op = "map_to_problem") =>
        LET api == api_problem[1]
            outcomes == reading[1].outcomes
            calls == reading[1].out.calls
            ret == reading[1].out.ret
        IN  /\ Len(calls) >= 1 /\ calls[1] = "validate"
            /\ Len(calls) <= Len(Steps) /\ calls = SubSeq(Steps, 1, Len(calls))
            /\ \A i \in DOMAIN calls :
                  StepFails(calls[i], api, outcomes) => ~ret.ok /\ i = Len(calls)
            /\ (\E i \in DOMAIN Steps : StepFails(Steps[i], api, outcomes)) => ~ret.ok
            /\ ~ret.ok => "value" \notin DOMAIN ret /\ StepFails(calls[Len(calls)], api, outcomes)
            /\ ret.ok =>
                  /\ calls = Steps
                  /\ \A i \in DOMAIN Steps : ~StepFails(Steps[i], api, outcomes)
                  /\ DOMAIN ret.value =
                        {"fleet", "jobs", "locks", "goal", "activity", "transport", "extras"}

\* The goal fails for a problem with reserved times, after the validation
\* and the blocks: the error of the goal and no problem.
C13_Witness ==
    /\ reading # None /\ reading[1].op = "map_to_problem"
    /\ HasRequiredBreak(api_problem[1])
    /\ reading[1].outcomes.validate /\ ~reading[1].outcomes.goal
    /\ ~reading[1].outcomes.cluster_config.ok
    /\ reading[1].out.calls = SubSeq(Steps, 1, 3)
    /\ reading[1].out.ret = Err("E0000")

\* C15: read_reserved_times_index has an entry for an actor exactly when the
\* vehicle type and shift index of the actor have a required break, the entry
\* has one reserved time span per such required break, optional breaks add
\* none and no entry is empty; get_problem_blocks wraps the transport and
\* activity costs into their dynamic variants, and create_extras stores the
\* reserved times, exactly when the index is not empty.
C15_ReservedTimesFollowRequiredBreaks ==
    reading # None =>
        LET api == api_problem[1]
            out == reading[1].out
            index == read_reserved_times_index(api, read_fleet(api))
        IN  /\ reading[1].op = "read_reserved_times_index" =>
                  /\ IndexIsOfRequiredBreaks(api, out)
                  /\ IsEmptyIndex(out) <=> ~HasRequiredBreak(api)
            /\ (reading[1].op = "get_problem_blocks" /\ out.ok) =>
                  /\ IndexIsOfRequiredBreaks(api, out.value.reserved_times_index)
                  /\ IF IsEmptyIndex(out.value.reserved_times_index)
                     THEN CostsArePlain(out.value)
                     ELSE CostsAreDynamic(out.value, out.value.reserved_times_index)
            /\ (reading[1].op = "create_extras" /\ out.ok) =>
                  ExtrasHoldReservedTimes(out.value, index)
            /\ (reading[1].op = "map_to_problem" /\ out.ret.ok) =>
                  /\ IF HasRequiredBreak(api)
                     THEN CostsAreDynamic(out.ret.value, index)
                     ELSE CostsArePlain(out.ret.value)
                  /\ ExtrasHoldReservedTimes(out.ret.value.extras, index)
                  /\ "reserved_times" \in DOMAIN out.ret.value.extras <=> HasRequiredBreak(api)

\* A problem read in full: two vehicles of a type with two shifts, the first
\* with an optional and a required break, the second without breaks, and a
\* second type without breaks.  The two actors of the first shift have one
\* span each, the costs are dynamic and the extras hold the reserved times.
C15_Witness ==
    /\ reading # None /\ reading[1].op = "map_to_problem" /\ reading[1].out.ret.ok
    /\ Len(api_problem[1].vehicles) = 2
    /\ api_problem[1].vehicles[1].shifts =
          <<[breaks |-> Some(<<OptionalBreak, ExactBreak>>)], [breaks |-> None]>>
    /\ api_problem[1].vehicles[2].shifts = <<[breaks |-> None]>>
    /\ reading[1].out.ret.value.transport.type = "DynamicTransportCost"
    /\ reading[1].out.ret.value.activity.type = "DynamicActivityCost"
    /\ DOMAIN reading[1].out.ret.value.extras.reserved_times =
          {[vehicle_id |-> id, type_id |-> "type_a", shift_index |-> 0] : id \in {"a1", "a2"}}
    /\ \A actor \in DOMAIN reading[1].out.ret.value.extras.reserved_times :
          reading[1].out.ret.value.extras.reserved_times[actor] =
              <<[time |-> [kind |-> "Window", start |-> 1, end |-> 2], duration |-> 1]>>

====
